---- MODULE Spec2Model ----
(***************************************************************************)
(* A model of obadgen's image baking: the PNG and SVG patchers             *)
(* (src/patcher/png.rs, src/patcher/svg.rs), the image type resolver       *)
(* (src/patcher/mod.rs) and the driver process::run (src/process.rs).      *)
(*                                                                         *)
(* Five specifications share the module:                                   *)
(*   Spec           one call of Patcher::rewrite on a source image,        *)
(*                  optionally followed by a second call on the first      *)
(*                  call's output;                                         *)
(*   SpecType       ImageType::try_from applied to a path;                 *)
(*   SpecRun        process::run, step by step, with the steps of the      *)
(*                  patcher it calls;                                      *)
(*   SpecContent    process::create_baking_content applied to any          *)
(*                  arguments;                                             *)
(*   SpecVerbosity  Verbosity::up_max and Verbosity::down_max.             *)
(*                                                                         *)
(* The codecs (crates png and xml-rs) are the environment.  What the model *)
(* takes from them is stated where it is used; every call into them that   *)
(* returns a Result may fail, which the actions model by a choice.         *)
(***************************************************************************)
EXTENDS Integers, Sequences, FiniteSets, TLC

(***************************************************************************)
(* Bounds of the model.                                                    *)
(***************************************************************************)
MaxChunks == 2
MaxFrames == 2
MaxKids == 2
MaxPathLen == 5
MaxSteps == 8

SeqsUpTo(S, n) == UNION {[1..k -> S] : k \in 0..n}

RECURSIVE SeqToSet(_)
SeqToSet(s) == IF s = <<>> THEN {} ELSE {Head(s)} \cup SeqToSet(Tail(s))

\* The payloads: opaque strings.
Texts == {"A", "B"}

NONE == "None"

VARIABLES
    patcher,                    \* "png" or "svg": the implementation called
    call,                       \* 1: the first rewrite, 2: the rewrite of its output
    input_file,                 \* the source image
    verify,                     \* the proposed payload
    fail_if_verify_present,     \* the conflict policy
    pc,                         \* the position inside rewrite
    output_file,                \* [created, data]: the destination
    info,                       \* png: the decoded Info (three text lists)
    encoder,                    \* png: the text chunks added to the encoder
    verify_already_as_proposed, \* png: local of rewrite
    idx,                        \* the index of the running loop
    passed_init_elem,           \* svg: local of rewrite
    result,                     \* what rewrite returned
    faulted,                    \* history: a step of this call failed
    frame_errors,               \* history: frame decode failures of this call
    first,                      \* history: the first call, once the second started
    path,                       \* SpecType: the path classified
    classified,                 \* SpecType: the result of ImageType::try_from
    settings,                   \* SpecRun: environment.settings and the files
    rpc,                        \* SpecRun: the position inside run
    opened,                     \* SpecRun: history, the files opened so far
    rresult,                    \* SpecRun: what run returned
    invoked,                    \* SpecRun: history, the calls of a patcher run has made
    baking_content,             \* SpecRun: what create_baking_content returned
    level,                      \* SpecVerbosity: self
    steps,                      \* SpecVerbosity: the argument
    method,                     \* SpecVerbosity: the method to call
    new_level,                  \* SpecVerbosity: what the method returned
    args,                       \* SpecContent: the arguments of create_baking_content
    returned                    \* SpecContent: what create_baking_content returned

pvars == <<patcher, call, input_file, verify, fail_if_verify_present, pc,
           output_file, info, encoder, verify_already_as_proposed, idx,
           passed_init_elem, result, faulted, frame_errors, first>>
tvars == <<path, classified>>
rvars == <<settings, rpc, opened, rresult, invoked, baking_content>>
vvars == <<level, steps, method, new_level>>
cvars == <<args, returned>>
vars == <<pvars, tvars, rvars, vvars, cvars>>

(***************************************************************************)
(* patcher::Error                                                          *)
(***************************************************************************)
Running == [tag |-> "Running"]
Ok == [tag |-> "Ok"]
ErrIO == [tag |-> "IO"]
ErrBoxed == [tag |-> "Boxed"]
VerifyAlreadySet(present, proposed) ==
    [tag |-> "VerifyAlreadySet", present |-> present, proposed |-> proposed]

(***************************************************************************)
(* PNG files.  A file is the text chunks standing before the image data    *)
(* (head), the frames, and the text chunks standing after the image data   *)
(* (tail).  Reader::read_info stops at the first image data chunk, so the  *)
(* Info cloned at png.rs:116 holds the head's chunks only, in three lists  *)
(* by kind.                                                                *)
(***************************************************************************)
Chunk(kind, keyword, text, compressed) ==
    [kind |-> kind, keyword |-> keyword, text |-> text, compressed |-> compressed]

Keywords == {"openbadges", "Title"}

HeadChunks ==
    {Chunk("iTXt", k, t, FALSE) : k \in Keywords, t \in Texts}
    \cup {Chunk("tEXt", k, "A", FALSE) : k \in Keywords}
    \cup {Chunk("zTXt", "Title", "B", TRUE), Chunk("iTXt", "Title", "B", TRUE)}

TailChunks == {Chunk("iTXt", "openbadges", "A", FALSE), Chunk("tEXt", "Title", "B", FALSE)}

Pixels == {"px0", "px1"}

PngFiles ==
    {[head |-> x[1], frames |-> x[2], tail |-> x[3]] : x \in {y \in
        SeqsUpTo(HeadChunks, MaxChunks) \X (SeqsUpTo(Pixels, MaxFrames) \ {<<>>})
        \X SeqsUpTo(TailChunks, MaxChunks) : Len(y[1]) + Len(y[3]) <= MaxChunks}}
OfKind(chunks, kind) == SelectSeq(chunks, LAMBDA c : c.kind = kind)

ReadInfo(file) ==
    [uncompressed_latin1_text |-> OfKind(file.head, "tEXt"),
     compressed_latin1_text |-> OfKind(file.head, "zTXt"),
     utf8_text |-> OfKind(file.head, "iTXt")]

NoInfo == [uncompressed_latin1_text |-> <<>>, compressed_latin1_text |-> <<>>, utf8_text |-> <<>>]

\* The output: what was written to the destination, in order.
Header == [item |-> "header"]
ChunkItem(c) == [item |-> "chunk", chunk |-> c]
FrameItem(d) == [item |-> "frame", data |-> d]

ItemsOf(chunks) == [i \in 1..Len(chunks) |-> ChunkItem(chunks[i])]

\* encoder.add_text_chunk / add_ztxt_chunk / add_itxt_chunk: the chunk the
\* encoder builds from a keyword and a text.
NewTEXt(keyword, text) == Chunk("tEXt", keyword, text, FALSE)
NewZTXt(keyword, text) == Chunk("zTXt", keyword, text, TRUE)
NewITXt(keyword, text) == Chunk("iTXt", keyword, text, FALSE)

NoEncoder == [text |-> <<>>, ztxt |-> <<>>, itxt |-> <<>>]

\* Encoder::write_header: the header, then the added chunks, kind by kind.
WriteHeader(enc) == <<Header>> \o ItemsOf(enc.text) \o ItemsOf(enc.ztxt) \o ItemsOf(enc.itxt)

\* The positions of the three loops over the text lists: a loop over an
\* empty rest is left at once.
\* Positions that lead from the zTXt loop to the header at once.
HeaderBeforeItxt(i, inf) ==
    IF i <= Len(inf.compressed_latin1_text) THEN <<"ztxt", i>> ELSE <<"write_header", 1>>
AfterItxt(i, inf) == IF i <= Len(inf.utf8_text) THEN <<"itxt", i>> ELSE <<"write_header", 1>>
AfterZtxt(i, inf) == IF i <= Len(inf.compressed_latin1_text) THEN <<"ztxt", i>> ELSE AfterItxt(1, inf)
AfterText(i, inf) == IF i <= Len(inf.uncompressed_latin1_text) THEN <<"text", i>> ELSE AfterZtxt(1, inf)

\* A file read back from what a call wrote: every chunk written stands before the frames.
PngReadBack(data) ==
    LET chunks == SelectSeq(data, LAMBDA x : x.item = "chunk")
        frames == SelectSeq(data, LAMBDA x : x.item = "frame")
    IN [head |-> [i \in 1..Len(chunks) |-> chunks[i].chunk],
        frames |-> [i \in 1..Len(frames) |-> frames[i].data],
        tail |-> <<>>]

NoOutput == [created |-> FALSE, data |-> <<>>]

\* rewrite returns r; f says whether a step failed.
Return(r, f) ==
    /\ result' = r
    /\ pc' = "done"
    /\ faulted' = (faulted \/ f)

\* A rewrite that creates the destination before it opens the input.
PngCreateThenOpen ==
    /\ patcher = "png" /\ pc = "open_input"
    /\ output_file' = [created |-> TRUE, data |-> <<>>]
    /\ \E ok \in BOOLEAN :
        IF ok THEN /\ pc' = "read_info"
                   /\ opened' = opened \o <<"baked", "source_image">>
                   /\ UNCHANGED <<result, faulted>>
              ELSE /\ Return(ErrIO, TRUE)
                   /\ opened' = Append(opened, "baked")
    /\ UNCHANGED <<patcher, call, input_file, verify, fail_if_verify_present,
                   info, encoder, verify_already_as_proposed, idx,
                   passed_init_elem, frame_errors, first, tvars,
                   settings, rpc, rresult, invoked, baking_content, vvars, cvars>>

\* png.rs:92-94
PngOpenInput ==
    /\ patcher = "png" /\ pc = "open_input"
    /\ \E ok \in BOOLEAN :
        IF ok THEN /\ pc' = "create_output"
                   /\ opened' = Append(opened, "source_image")
                   /\ UNCHANGED <<result, faulted>>
              ELSE /\ Return(ErrIO, TRUE)
                   /\ UNCHANGED opened
    /\ UNCHANGED <<patcher, call, input_file, verify, fail_if_verify_present,
                   output_file, info, encoder, verify_already_as_proposed, idx,
                   passed_init_elem, frame_errors, first, tvars,
                   settings, rpc, rresult, invoked, baking_content, vvars, cvars>>

PngCreateOutput ==
    /\ patcher = "png" /\ pc = "create_output"
    /\ \E ok \in BOOLEAN :
        IF ok THEN /\ pc' = "read_info"
                   /\ output_file' = [created |-> TRUE, data |-> <<>>]
                   /\ opened' = Append(opened, "baked")
                   /\ UNCHANGED <<result, faulted>>
              ELSE /\ Return(ErrIO, TRUE)
                   /\ UNCHANGED <<output_file, opened>>
    /\ UNCHANGED <<patcher, call, input_file, verify, fail_if_verify_present,
                   info, encoder, verify_already_as_proposed, idx,
                   passed_init_elem, frame_errors, first, tvars,
                   settings, rpc, rresult, invoked, baking_content, vvars, cvars>>

PngReadInfo ==
    /\ patcher = "png" /\ pc = "read_info"
    /\ \E ok \in BOOLEAN :
        IF ok THEN /\ pc' = "create_reencoder"
                   /\ info' = ReadInfo(input_file)
                   /\ UNCHANGED <<result, faulted>>
              ELSE /\ Return(ErrBoxed, TRUE)
                   /\ UNCHANGED info
    /\ UNCHANGED <<patcher, call, input_file, verify, fail_if_verify_present,
                   output_file, encoder, verify_already_as_proposed, idx,
                   passed_init_elem, frame_errors, first, tvars, rvars, vvars, cvars>>

PngCreateReencoder ==
    /\ patcher = "png" /\ pc = "create_reencoder"
    /\ \E ok \in BOOLEAN :
        IF ok THEN /\ pc' = AfterText(1, info)[1]
                   /\ idx' = AfterText(1, info)[2]
                   /\ encoder' = NoEncoder
                   /\ verify_already_as_proposed' = FALSE
                   /\ UNCHANGED <<result, faulted>>
              ELSE /\ Return(ErrBoxed, TRUE)
                   /\ UNCHANGED <<idx, encoder, verify_already_as_proposed>>
    /\ UNCHANGED <<patcher, call, input_file, verify, fail_if_verify_present,
                   output_file, info, passed_init_elem, frame_errors, first, tvars, rvars, vvars, cvars>>

PngText ==
    /\ patcher = "png" /\ pc = "text"
    /\ LET chunk == info.uncompressed_latin1_text[idx] IN
       \E ok \in BOOLEAN :
        IF ok THEN /\ encoder' = [encoder EXCEPT !.text = Append(@, NewTEXt(chunk.keyword, chunk.text))]
                   /\ pc' = AfterText(idx + 1, info)[1]
                   /\ idx' = AfterText(idx + 1, info)[2]
                   /\ UNCHANGED <<result, faulted>>
              ELSE /\ Return(ErrBoxed, TRUE)
                   /\ UNCHANGED <<idx, encoder>>
    /\ UNCHANGED <<patcher, call, input_file, verify, fail_if_verify_present,
                   output_file, info, verify_already_as_proposed,
                   passed_init_elem, frame_errors, first, tvars, rvars, vvars, cvars>>

\* chunk.get_text() of a compressed chunk inflates it, and may fail.
PngZtxt ==
    /\ patcher = "png" /\ pc = "ztxt"
    /\ LET chunk == info.compressed_latin1_text[idx] IN
       \E ok \in BOOLEAN :
        IF ok THEN /\ encoder' = [encoder EXCEPT !.ztxt = Append(@, NewZTXt(chunk.keyword, chunk.text))]
                   /\ pc' = AfterZtxt(idx + 1, info)[1]
                   /\ idx' = AfterZtxt(idx + 1, info)[2]
                   /\ UNCHANGED <<result, faulted>>
              ELSE /\ Return(ErrBoxed, TRUE)
                   /\ UNCHANGED <<idx, encoder>>
    /\ UNCHANGED <<patcher, call, input_file, verify, fail_if_verify_present,
                   output_file, info, verify_already_as_proposed,
                   passed_init_elem, frame_errors, first, tvars, rvars, vvars, cvars>>

\* One turn of the loop over info.utf8_text (png.rs:138-157): what it does
\* with the chunk, as <<verify_already_as_proposed, outcome>>.
ItxtDecision(chunk, proposed, fail_if_present, already) ==
    IF chunk.keyword = "openbadges"
    THEN IF chunk.text = proposed THEN <<TRUE, "add">>
         ELSE IF fail_if_present THEN <<already, "conflict">>
         ELSE <<already, "skip">>
    ELSE <<already, "add">>

PngItxt ==
    /\ patcher = "png" /\ pc = "itxt"
    /\ LET chunk == info.utf8_text[idx]
           d == ItxtDecision(chunk, verify, fail_if_verify_present, verify_already_as_proposed)
       IN
       \E ok \in BOOLEAN :
        IF ok
        THEN IF d[2] = "conflict"
             THEN /\ Return(VerifyAlreadySet(chunk.text, verify), FALSE)
                  /\ UNCHANGED <<idx, encoder, verify_already_as_proposed>>
             ELSE /\ verify_already_as_proposed' = d[1]
                  /\ encoder' = IF d[2] = "add"
                                THEN [encoder EXCEPT !.itxt = Append(@, NewITXt(chunk.keyword, chunk.text))]
                                ELSE encoder
                  /\ pc' = AfterItxt(idx + 1, info)[1]
                  /\ idx' = AfterItxt(idx + 1, info)[2]
                  /\ UNCHANGED <<result, faulted>>
        ELSE /\ Return(ErrBoxed, TRUE)
             /\ UNCHANGED <<idx, encoder, verify_already_as_proposed>>
    /\ UNCHANGED <<patcher, call, input_file, verify, fail_if_verify_present,
                   output_file, info, passed_init_elem, frame_errors, first, tvars, rvars, vvars, cvars>>

PngWriteHeader ==
    /\ patcher = "png" /\ pc = "write_header"
    /\ \E ok \in BOOLEAN :
        IF ok THEN /\ output_file' = [output_file EXCEPT !.data = @ \o WriteHeader(encoder)]
                   /\ pc' = IF verify_already_as_proposed THEN "next_frame" ELSE "write_ob_chunk"
                   /\ idx' = 1
                   /\ UNCHANGED <<result, faulted>>
              ELSE /\ Return(ErrBoxed, TRUE)
                   /\ UNCHANGED <<idx, output_file>>
    /\ UNCHANGED <<patcher, call, input_file, verify, fail_if_verify_present,
                   info, encoder, verify_already_as_proposed,
                   passed_init_elem, frame_errors, first, tvars, rvars, vvars, cvars>>

PngWriteObChunk ==
    /\ patcher = "png" /\ pc = "write_ob_chunk"
    /\ \E ok \in BOOLEAN :
        IF ok THEN /\ output_file' = [output_file EXCEPT
                                        !.data = Append(@, ChunkItem(NewITXt("openbadges", verify)))]
                   /\ pc' = "next_frame"
                   /\ UNCHANGED <<result, faulted>>
              ELSE /\ Return(ErrBoxed, TRUE)
                   /\ UNCHANGED output_file
    /\ UNCHANGED <<patcher, call, input_file, verify, fail_if_verify_present,
                   info, encoder, verify_already_as_proposed, idx,
                   passed_init_elem, frame_errors, first, tvars, rvars, vvars, cvars>>

\* `while let Ok(info) = reader.next_frame(&mut buf)`: the loop is left on
\* every Err of next_frame, the one that ends the image and a decode failure
\* alike, and rewrite then returns Ok(()) (png.rs:179).
PngNextFrame ==
    /\ patcher = "png" /\ pc = "next_frame"
    /\ \/ /\ idx <= Len(input_file.frames)       \* next_frame is Ok
          /\ \E ok \in BOOLEAN :
              IF ok THEN /\ output_file' = [output_file EXCEPT
                                              !.data = Append(@, FrameItem(input_file.frames[idx]))]
                         /\ idx' = idx + 1
                         /\ UNCHANGED <<pc, result, faulted>>
                    ELSE /\ Return(ErrBoxed, TRUE)    \* write_image_data fails
                         /\ UNCHANGED <<idx, output_file>>
          /\ UNCHANGED frame_errors
       \/ /\ idx <= Len(input_file.frames)       \* next_frame fails to decode the frame
          /\ Return(Ok, TRUE)
          /\ frame_errors' = frame_errors + 1
          /\ UNCHANGED <<idx, output_file>>
       \/ /\ idx > Len(input_file.frames)        \* next_frame: the image has ended
          /\ Return(Ok, FALSE)
          /\ UNCHANGED <<idx, output_file, frame_errors>>
    /\ UNCHANGED <<patcher, call, input_file, verify, fail_if_verify_present,
                   info, encoder, verify_already_as_proposed,
                   passed_init_elem, first, tvars, rvars, vvars, cvars>>

PngNext ==
    \/ PngOpenInput \/ PngCreateOutput \/ PngReadInfo \/ PngCreateReencoder
    \/ PngText \/ PngZtxt \/ PngItxt \/ PngWriteHeader \/ PngWriteObChunk
    \/ PngNextFrame

(***************************************************************************)
(* SVG documents.  A file is a sequence of nodes; xml-rs's EventReader     *)
(* (default ParserConfig: comments are ignored, whitespace between         *)
(* elements is reported as a Whitespace event) turns it into events, the   *)
(* first StartDocument and the last EndDocument.  A start element carries  *)
(* its resolved name, its attributes and the namespace mapping in scope.   *)
(***************************************************************************)
SVG_NS == "http://www.w3.org/2000/svg"
OB_NS == "http://openbadges.org"
OTHER_NS == "http://example.org/other"
NS_NO_PREFIX == ""

Name(local_name, namespace, prefix) ==
    [local_name |-> local_name, namespace |-> namespace, prefix |-> prefix]
Attr(name, value) == [name |-> name, value |-> value]

StartDocument == [type |-> "StartDocument"]
EndDocument == [type |-> "EndDocument"]
StartElement(name, attributes, namespace) ==
    [type |-> "StartElement", name |-> name, attributes |-> attributes, namespace |-> namespace]
EndElement(name) == [type |-> "EndElement", name |-> name]
Whitespace(text) == [type |-> "Whitespace", text |-> text]
Characters(text) == [type |-> "Characters", text |-> text]
Comment(text) == [type |-> "Comment", text |-> text]
NoEvent == [type |-> "None"]
NoName == Name(NONE, NONE, NONE)
NoError == [tag |-> "None"]

\* A namespace mapping is a set of <<prefix, uri>> with one uri per prefix.
Contains(namespace, prefix) == \E m \in namespace : m[1] = prefix
Get(namespace, prefix) ==
    IF Contains(namespace, prefix) THEN (CHOOSE m \in namespace : m[1] = prefix)[2] ELSE NONE
\* Namespace::put: adds the mapping unless the prefix is mapped already.
Put(namespace, prefix, uri) ==
    IF Contains(namespace, prefix) THEN namespace ELSE namespace \cup {<<prefix, uri>>}
\* The mapping in scope inside an element that declares `inner` under `outer`.
Squash(outer, inner) == inner \cup {m \in outer : ~Contains(inner, m[1])}

\* Element names taken as they are written.
KeepName(s) == s
\* str::to_lowercase on the element names of the model.
ToLowercase(s) == CASE s = "SVG" -> "svg" [] s = "Svg" -> "svg" [] OTHER -> s

\* The source documents: a root element and up to MaxKids children.
RootNames ==
    {Name("svg", SVG_NS, NONE), Name("SVG", NONE, NONE), Name("g", SVG_NS, NONE),
     Name("svg", OTHER_NS, NONE)}
ObBindings == {NONE, OB_NS, OTHER_NS}
KidItems ==
    {"ws", "comment", "rect", "assertA", "assertB", "assertNone", "assertAx", "nested", "nestedB"}

RootNamespace(name, ob) ==
    (IF name.namespace # NONE THEN {<<NS_NO_PREFIX, name.namespace>>} ELSE {})
    \cup (IF ob # NONE THEN {<<"openbadges", ob>>} ELSE {})

RootAttributes == <<Attr(Name("viewBox", NONE, NONE), "0 0 640 640")>>

\* An <openbadges:assertion> element of the source: the prefix is the one the
\* root binds, or the element declares it itself.
AssertionNodes(scope, attributes) ==
    LET ns == Squash(scope, {<<"openbadges", OB_NS>>})
        name == Name("assertion", Get(ns, "openbadges"), "openbadges")
    IN <<StartElement(name, attributes, ns), EndElement(name)>>

VerifyAttr(v) == Attr(Name("verify", NONE, NONE), v)
IdAttr == Attr(Name("id", NONE, NONE), "badge")

KidNodes(item, scope) ==
    LET dflt == Get(scope, NS_NO_PREFIX) IN
    CASE item = "ws" -> <<Whitespace(" ")>>
      [] item = "comment" -> <<Comment("c")>>
      [] item = "rect" -> <<StartElement(Name("rect", dflt, NONE), <<>>, scope),
                            EndElement(Name("rect", dflt, NONE))>>
      [] item = "assertA" -> AssertionNodes(scope, <<VerifyAttr("A")>>)
      [] item = "assertB" -> AssertionNodes(scope, <<VerifyAttr("B")>>)
      [] item = "assertNone" -> AssertionNodes(scope, <<>>)
      [] item = "assertAx" -> AssertionNodes(scope, <<IdAttr, VerifyAttr("A")>>)
      [] item = "nested" -> <<StartElement(Name("svg", dflt, NONE), <<>>, scope),
                              EndElement(Name("svg", dflt, NONE))>>
      [] item = "nestedB" -> <<StartElement(Name("svg", dflt, NONE), <<>>, scope)>>
                             \o AssertionNodes(scope, <<VerifyAttr("B")>>)
                             \o <<EndElement(Name("svg", dflt, NONE))>>

RECURSIVE Flatten(_, _)
Flatten(items, scope) ==
    IF items = <<>> THEN <<>> ELSE KidNodes(Head(items), scope) \o Flatten(Tail(items), scope)

Doc(root, ob, kids) ==
    LET scope == RootNamespace(root, ob) IN
    <<StartElement(root, RootAttributes, scope)>> \o Flatten(kids, scope) \o <<EndElement(root)>>

SvgFiles == {Doc(r, ob, k) : r \in RootNames, ob \in ObBindings, k \in SeqsUpTo(KidItems, MaxKids)}

\* EventReader::new(input_buf) as an iterator.
EventReader(file) ==
    <<StartDocument>> \o SelectSeq(file, LAMBDA n : n.type # "Comment") \o <<EndDocument>>

\* reader::XmlEvent::as_writer_event: None for EndDocument, Characters for Whitespace.
AsWriterEvent(evt) ==
    CASE evt.type = "EndDocument" -> NoEvent
      [] evt.type = "Whitespace" -> Characters(evt.text)
      [] OTHER -> evt

\* writer::XmlEvent::start_element("openbadges:assertion").attr("verify", v):
\* a prefixed name without namespace, one attribute, no namespace mapping.
NewAssertionStart(v) ==
    StartElement(Name("assertion", NONE, "openbadges"), <<VerifyAttr(v)>>, {})

\* A rewrite that inserts no assertion element.
NoAssertion(v) == <<>>
\* add_assertion: the start element and writer::XmlEvent::end_element().
AddAssertion(v) == <<NewAssertionStart(v), EndElement(NoName)>>

\* svg.rs:125-141: is the event the assertion element, and its verify value
\* (the last attribute whose local name is verify).
IsObAssert(evt_in) ==
    /\ evt_in.type = "StartElement"
    /\ evt_in.name.namespace = OB_NS
    /\ evt_in.name.local_name = "assertion"

VerifyAttrVal(evt_in) ==
    LET at == evt_in.attributes
        S == {i \in 1..Len(at) : at[i].name.local_name = "verify"}
    IN IF S = {} THEN NONE ELSE at[CHOOSE i \in S : \A j \in S : j <= i].value

\* svg.rs:115-175: the decision on the event after the initial element.
\* [err, add_new_ob_assert, evt_out_opt]
Decide(evt_in, evt_out_opt, proposed, fail_if_present) ==
    IF IsObAssert(evt_in)
    THEN LET val == VerifyAttrVal(evt_in) IN
         IF val # NONE
         THEN IF val = proposed
              THEN [err |-> NoError, add_new_ob_assert |-> FALSE, evt_out_opt |-> evt_out_opt]
              ELSE IF fail_if_present
              THEN [err |-> VerifyAlreadySet(val, proposed), add_new_ob_assert |-> FALSE,
                    evt_out_opt |-> evt_out_opt]
              ELSE [err |-> NoError, add_new_ob_assert |-> FALSE,
                    evt_out_opt |-> NewAssertionStart(proposed)]
         ELSE [err |-> NoError, add_new_ob_assert |-> TRUE, evt_out_opt |-> evt_out_opt]
    ELSE [err |-> NoError, add_new_ob_assert |-> TRUE, evt_out_opt |-> evt_out_opt]

\* add_namespace, svg.rs:64-84: is the event the initial element.
IsInitElem(evt_out) ==
    /\ evt_out.type = "StartElement"
    /\ ToLowercase(evt_out.name.local_name) = "svg"
    /\ (evt_out.name.namespace = NONE \/ evt_out.name.namespace = SVG_NS)

\* add_namespace: the event written (NoEvent: nothing is written).
AddNamespace(evt_out_opt) ==
    IF IsInitElem(evt_out_opt)
    THEN [evt_out_opt EXCEPT !.namespace = Put(@, "openbadges", OB_NS)]
    ELSE evt_out_opt

SvgOpenInput ==
    /\ patcher = "svg" /\ pc = "open_input"
    /\ \E ok \in BOOLEAN :
        IF ok THEN /\ pc' = "create_output"
                   /\ opened' = Append(opened, "source_image")
                   /\ UNCHANGED <<result, faulted>>
              ELSE /\ Return(ErrIO, TRUE)
                   /\ UNCHANGED opened
    /\ UNCHANGED <<patcher, call, input_file, verify, fail_if_verify_present,
                   output_file, info, encoder, verify_already_as_proposed, idx,
                   passed_init_elem, frame_errors, first, tvars,
                   settings, rpc, rresult, invoked, baking_content, vvars, cvars>>

SvgCreateOutput ==
    /\ patcher = "svg" /\ pc = "create_output"
    /\ \E ok \in BOOLEAN :
        IF ok THEN /\ pc' = "events"
                   /\ idx' = 1
                   /\ passed_init_elem' = FALSE
                   /\ output_file' = [created |-> TRUE, data |-> <<>>]
                   /\ opened' = Append(opened, "baked")
                   /\ UNCHANGED <<result, faulted>>
              ELSE /\ Return(ErrIO, TRUE)
                   /\ UNCHANGED <<idx, passed_init_elem, output_file, opened>>
    /\ UNCHANGED <<patcher, call, input_file, verify, fail_if_verify_present,
                   info, encoder, verify_already_as_proposed,
                   frame_errors, first, tvars,
                   settings, rpc, rresult, invoked, baking_content, vvars, cvars>>

\* One turn of `for evt_in_res in parser` (svg.rs:111-177).  read_ok: the
\* parser yields an event; write_ok: the writes of this turn succeed.
SvgEvent ==
    /\ patcher = "svg" /\ pc = "events"
    /\ LET events == EventReader(input_file)
           evt_in == events[idx]
           evt_out_opt == AsWriterEvent(evt_in)
           d == IF passed_init_elem
                THEN Decide(evt_in, evt_out_opt, verify, fail_if_verify_present)
                ELSE [err |-> NoError, add_new_ob_assert |-> FALSE, evt_out_opt |-> evt_out_opt]
           added == IF d.add_new_ob_assert THEN AddAssertion(verify) ELSE <<>>
           out == AddNamespace(d.evt_out_opt)
           written == added \o (IF out = NoEvent THEN <<>> ELSE <<out>>)
       IN
       \E read_ok, write_ok \in BOOLEAN :
        IF ~read_ok
        THEN /\ write_ok
             /\ Return(ErrBoxed, TRUE)
             /\ UNCHANGED <<idx, passed_init_elem, output_file>>
        ELSE IF d.err # NoError
        THEN /\ write_ok
             /\ Return(d.err, FALSE)
             /\ UNCHANGED <<idx, passed_init_elem, output_file>>
        ELSE IF ~write_ok
        THEN /\ written # <<>>
             /\ Return(ErrBoxed, TRUE)
             /\ UNCHANGED <<idx, passed_init_elem, output_file>>
        ELSE /\ output_file' = [output_file EXCEPT !.data = @ \o written]
             /\ passed_init_elem' = IsInitElem(d.evt_out_opt)
             /\ IF idx = Len(events)
                THEN /\ Return(Ok, FALSE)
                     /\ UNCHANGED idx
                ELSE /\ idx' = idx + 1
                     /\ UNCHANGED <<pc, result, faulted>>
    /\ UNCHANGED <<patcher, call, input_file, verify, fail_if_verify_present,
                   info, encoder, verify_already_as_proposed,
                   frame_errors, first, tvars, rvars, vvars, cvars>>

SvgNext == SvgOpenInput \/ SvgCreateOutput \/ SvgEvent

(***************************************************************************)
(* The file a call wrote, as the next reader sees it.  The writer closes   *)
(* an end_element() without name with the name of the element last opened; *)
(* a prefixed name written without namespace resolves through the mappings *)
(* in scope; characters that are whitespace only read back as Whitespace.   *)
(***************************************************************************)
IsWhitespace(text) == text = " "

Top(stack, dflt) == IF stack = <<>> THEN dflt ELSE stack[Len(stack)]
Pop(stack) == SubSeq(stack, 1, Len(stack) - 1)

RECURSIVE FileNodesFrom(_, _, _, _)
FileNodesFrom(data, i, scopes, names) ==
    IF i > Len(data) THEN <<>>
    ELSE LET evt == data[i] IN
         CASE evt.type = "StartElement" ->
                LET scope == Squash(Top(scopes, {}), evt.namespace)
                    name == IF evt.name.namespace = NONE /\ evt.name.prefix # NONE
                            THEN [evt.name EXCEPT !.namespace = Get(scope, evt.name.prefix)]
                            ELSE evt.name
                IN <<StartElement(name, evt.attributes, scope)>>
                   \o FileNodesFrom(data, i + 1, Append(scopes, scope), Append(names, name))
           [] evt.type = "EndElement" ->
                <<EndElement(Top(names, NoName))>>
                \o FileNodesFrom(data, i + 1, Pop(scopes), Pop(names))
           [] evt.type = "Characters" ->
                <<IF IsWhitespace(evt.text) THEN Whitespace(evt.text) ELSE evt>>
                \o FileNodesFrom(data, i + 1, scopes, names)
           [] evt.type = "StartDocument" -> FileNodesFrom(data, i + 1, scopes, names)
           [] OTHER -> <<evt>> \o FileNodesFrom(data, i + 1, scopes, names)

SvgReadBack(data) == FileNodesFrom(data, 1, <<>>, <<>>)

(***************************************************************************)
(* The calls: rewrite(source, out1, P, flag), and then, once it returned   *)
(* Ok, rewrite(out1, out2, P, true).                                       *)
(***************************************************************************)
ReadBack(p, data) == IF p = "png" THEN PngReadBack(data) ELSE SvgReadBack(data)

NoFirst == [called |-> FALSE]

Rebake ==
    /\ call = 1 /\ pc = "done" /\ result = Ok
    /\ first' = [called |-> TRUE, input_file |-> input_file,
                 fail_if_verify_present |-> fail_if_verify_present,
                 output_file |-> output_file, faulted |-> faulted]
    /\ call' = 2
    /\ input_file' = ReadBack(patcher, output_file.data)
    /\ fail_if_verify_present' = TRUE
    /\ pc' = "open_input"
    /\ output_file' = NoOutput
    /\ info' = NoInfo
    /\ encoder' = NoEncoder
    /\ verify_already_as_proposed' = FALSE
    /\ idx' = 1
    /\ passed_init_elem' = FALSE
    /\ result' = Running
    /\ faulted' = FALSE
    /\ frame_errors' = 0
    /\ UNCHANGED <<patcher, verify, tvars, rvars, vvars, cvars>>

\* The variables of the other specifications rest.
Init ==
    /\ patcher \in {"png", "svg"}
    /\ call = 1
    /\ input_file \in (IF patcher = "png" THEN PngFiles ELSE SvgFiles)
    /\ verify \in Texts
    /\ fail_if_verify_present \in BOOLEAN
    /\ pc = "open_input"
    /\ output_file = NoOutput
    /\ info = NoInfo
    /\ encoder = NoEncoder
    /\ verify_already_as_proposed = FALSE
    /\ idx = 1
    /\ passed_init_elem = FALSE
    /\ result = Running
    /\ faulted = FALSE
    /\ frame_errors = 0
    /\ first = NoFirst
    /\ path = <<>> /\ classified = [tag |-> "None"]
    /\ settings = [assertion_loc |-> FALSE]
    /\ rpc = "idle" /\ opened = <<>> /\ rresult = [tag |-> "None", from |-> "run"]
    /\ invoked = <<>> /\ baking_content = "unset"
    /\ level = "Info" /\ steps = 0 /\ method = "idle" /\ new_level = "unset"
    /\ args = [alg |-> "None"] /\ returned = [tag |-> "None", from |-> "run"]
Next == PngNext \/ SvgNext \/ Rebake
Spec == Init /\ [][Next]_vars

(***************************************************************************)
(* ImageType::try_from(&Path), src/patcher/mod.rs:30-56.  A path is a      *)
(* sequence of characters; BAD stands for a byte that is no valid UTF-8.   *)
(* Path::extension is std's: the file name is the last component (a        *)
(* trailing separator and "." components are skipped, ".." has none), the  *)
(* extension is what follows the file name's last dot, and a file name     *)
(* whose only dot is its first character has none.                         *)
(***************************************************************************)
BAD == "\\xFF"
PathChars == {"s", "S", "v", "g", "p", "n", ".", "/", BAD}
Paths == SeqsUpTo(PathChars, MaxPathLen)

\* The components of a path, split at "/": <<done components, current one>>.
RECURSIVE Split(_, _, _)
Split(p, comps, cur) ==
    IF p = <<>> THEN Append(comps, cur)
    ELSE IF Head(p) = "/" THEN Split(Tail(p), Append(comps, cur), <<>>)
    ELSE Split(Tail(p), comps, Append(cur, Head(p)))

\* Path::components: empty components and "." components are skipped, but
\* for a "." that starts a relative path.
KeptComponents(raw) ==
    SelectSeq([i \in 1..Len(raw) |-> IF raw[i] = <<".">> /\ i > 1 THEN <<>> ELSE raw[i]],
              LAMBDA c : c # <<>>)
Components(p) == KeptComponents(Split(p, <<>>, <<>>))

NoOsStr == <<"(none)">>

\* Path::file_name: the last component, unless it is ".." (or the path is ".").
LastComponent(comps) ==
    IF comps = <<>> THEN NoOsStr
    ELSE IF comps[Len(comps)] \in {<<".", ".">>, <<".">>} THEN NoOsStr
    ELSE comps[Len(comps)]
FileName(p) == LastComponent(Components(p))

\* The place of the last dot of a file name, 0 when it has none.
RECURSIVE LastDot(_, _)
LastDot(file, i) == IF i = 0 THEN 0 ELSE IF file[i] = "." THEN i ELSE LastDot(file, i - 1)

\* Path::extension: what follows the last dot; none without a dot, and none
\* when the only dot starts the file name.
AfterDot(file, d) == IF d <= 1 THEN NoOsStr ELSE SubSeq(file, d + 1, Len(file))
ExtensionOfFileName(file) ==
    IF file = NoOsStr THEN NoOsStr ELSE AfterDot(file, LastDot(file, Len(file)))
Extension(p) == ExtensionOfFileName(FileName(p))

\* OsStr::to_str succeeds on valid UTF-8 only.
IsUtf8(ext) == \A i \in 1..Len(ext) : ext[i] # BAD

LowerChar(c) == IF c = "S" THEN "s" ELSE c
\* A comparison that keeps the case of the extension.
KeepCase(ext) == ext
ToLowercaseStr(ext) == [i \in 1..Len(ext) |-> LowerChar(ext[i])]

Svg == [tag |-> "Svg"]
Png == [tag |-> "Png"]
ExtensionExtraction(msg) == [tag |-> "ExtensionExtraction", msg |-> msg]
Unsupported(ext) == [tag |-> "Unsupported", ext |-> ext]
NotClassified == [tag |-> "None"]

\* mod.rs:46-54: the match on the lowercased extension.
MatchExtension(ext, ext_lower) ==
    CASE ext_lower = <<"s", "v", "g">> -> Svg
      [] ext_lower = <<"p", "n", "g">> -> Png
      [] OTHER -> Unsupported(ext)

\* mod.rs:34-54, from the extension on.
ImageTypeOfExtension(ext) ==
    IF ext = NoOsStr THEN ExtensionExtraction("No file extension present")
    ELSE IF ~IsUtf8(ext) THEN ExtensionExtraction("File extension is not UTF-8 compatible")
    ELSE MatchExtension(ext, ToLowercaseStr(ext))

ImageTypeTryFrom(value) == ImageTypeOfExtension(Extension(value))

InitType ==
    /\ path \in Paths
    /\ classified = NotClassified
    /\ patcher = "png" /\ call = 1
    /\ input_file = [head |-> <<>>, frames |-> <<>>, tail |-> <<>>]
    /\ verify = "A" /\ fail_if_verify_present = TRUE
    /\ pc = "idle" /\ output_file = NoOutput /\ info = NoInfo /\ encoder = NoEncoder
    /\ verify_already_as_proposed = FALSE /\ idx = 1 /\ passed_init_elem = FALSE
    /\ result = Running /\ faulted = FALSE /\ frame_errors = 0 /\ first = NoFirst
    /\ settings = [assertion_loc |-> FALSE]
    /\ rpc = "idle" /\ opened = <<>> /\ rresult = [tag |-> "None", from |-> "run"]
    /\ invoked = <<>> /\ baking_content = "unset"
    /\ level = "Info" /\ steps = 0 /\ method = "idle" /\ new_level = "unset"
    /\ args = [alg |-> "None"] /\ returned = [tag |-> "None", from |-> "run"]

Classify ==
    /\ classified = NotClassified
    /\ classified' = ImageTypeTryFrom(path)
    /\ UNCHANGED <<path, pvars, rvars, vvars, cvars>>

SpecType == InitType /\ [][Classify]_vars

(***************************************************************************)
(* process::run, src/process.rs:308-368.  settings holds the five          *)
(* locations of environment.settings and sign_alg, and what the files at   *)
(* the locations hold.  opened lists the files run has opened or created,  *)
(* in order.                                                               *)
(***************************************************************************)
Some(x) == [some |-> TRUE, value |-> x]
NoPath == [some |-> FALSE]

ImagePaths ==
    {<<"s", ".", "s", "v", "g">>, <<"s", ".", "S", "v", "g">>, <<"s", ".", "p", "n", "g">>,
     <<"s", ".", "g", "v", "s">>, <<"s", "v", "g">>}

VerificationTypes == {"HostedBadge", "SignedBadge", "VerificationObject"}

SettingsSet ==
    [assertion_loc : BOOLEAN,
     source_image_loc : {NoPath} \cup {Some(q) : q \in ImagePaths},
     baked_loc : {NoPath} \cup {Some(q) : q \in ImagePaths},
     sign_key_loc : BOOLEAN,
     cert_loc : BOOLEAN,
     sign_alg : {"None", "RS256"},
     assertion_file : {"missing", "malformed"} \cup VerificationTypes,
     key_file : {"missing", "valid"}]

NoSettings ==
    [assertion_loc |-> FALSE, source_image_loc |-> NoPath, baked_loc |-> NoPath,
     sign_key_loc |-> FALSE, cert_loc |-> FALSE, sign_alg |-> "None",
     assertion_file |-> "missing", key_file |-> "missing"]

\* process::Error and the other ways run ends.
RunErr(tag, from) == [tag |-> tag, from |-> from]
RunOk == [tag |-> "Ok", from |-> "run"]
RunNone == [tag |-> "None", from |-> "run"]

\* An order of the steps in which the images are rewritten before their
\* types are parsed.
RewriteBeforeParse ==
    <<"read_assertion", "read_priv_key_opt", "read_cert_chain_opt",
      "rewrite", "parse_image_types", "create_baking_content">>
\* The steps of the baking branch of run, in the order of the code.
RunSteps ==
    <<"read_assertion", "read_priv_key_opt", "read_cert_chain_opt",
      "parse_image_types", "create_baking_content", "rewrite">>

StepAfter(step) ==
    LET i == CHOOSE k \in 1..Len(RunSteps) : RunSteps[k] = step IN
    IF i = Len(RunSteps) THEN "done" ELSE RunSteps[i + 1]

RunReturn(r) == /\ rresult' = r /\ rpc' = "done"
RunGoOn(step) ==
    /\ rpc' = StepAfter(step)
    /\ rresult' = IF StepAfter(step) = "done" THEN RunOk ELSE rresult

InitRun ==
    /\ settings \in SettingsSet
    /\ rpc = "start"
    /\ opened = <<>>
    /\ rresult = RunNone
    /\ patcher = "png" /\ call = 1
    /\ input_file = [head |-> <<>>, frames |-> <<>>, tail |-> <<>>]
    /\ verify = "A" /\ fail_if_verify_present = TRUE
    /\ pc = "idle" /\ output_file = NoOutput /\ info = NoInfo /\ encoder = NoEncoder
    /\ verify_already_as_proposed = FALSE /\ idx = 1 /\ passed_init_elem = FALSE
    /\ result = Running /\ faulted = FALSE /\ frame_errors = 0 /\ first = NoFirst
    /\ path = <<>> /\ classified = NotClassified
    /\ invoked = <<>> /\ baking_content = "unset"
    /\ level = "Info" /\ steps = 0 /\ method = "idle" /\ new_level = "unset"
    /\ args = [alg |-> "None"] /\ returned = [tag |-> "None", from |-> "run"]

\* A run that bakes as soon as the assertion location is set.
RunStartOnAssertion ==
    /\ rpc = "start"
    /\ IF settings.assertion_loc
       THEN rpc' = RunSteps[1]
       ELSE rpc' = "run_examples"
    /\ UNCHANGED <<settings, invoked, baking_content, opened, rresult, pvars, tvars, vvars, cvars>>
\* process.rs:309-313 and 360-367
RunStart ==
    /\ rpc = "start"
    /\ IF settings.assertion_loc /\ settings.source_image_loc.some /\ settings.baked_loc.some
       THEN rpc' = RunSteps[1]
       ELSE rpc' = "run_examples"
    /\ UNCHANGED <<settings, invoked, baking_content, opened, rresult, pvars, tvars, vvars, cvars>>

\* A call of Patcher::rewrite, by its arguments.
Call(p, input_file_path, output_file_path, content, fail_if_present) ==
    [patcher |-> p, input_file |-> input_file_path, output_file |-> output_file_path,
     verify |-> content, fail_if_verify_present |-> fail_if_present]

\* process.rs:120-138: the two calls of run_examples.
ExampleCall(p) ==
    Call(p, <<"res/media/img/test." \o p>>, <<"target/out." \o p>>, "example", TRUE)

\* run_examples (process.rs:72-148) reads the example key and bakes the
\* example images, the SVG and then the PNG; none of the files of settings.
RunExamples ==
    /\ rpc = "run_examples"
    /\ \E key_ok, svg_ok, png_ok \in BOOLEAN :
        IF ~key_ok
        THEN /\ ~svg_ok /\ ~png_ok
             /\ opened' = Append(opened, "example_key")
             /\ UNCHANGED invoked
             /\ RunReturn(RunErr("Boxed", "run_examples"))
        ELSE IF ~svg_ok
        THEN /\ ~png_ok
             /\ opened' = opened \o <<"example_key", "example_svg">>
             /\ invoked' = Append(invoked, ExampleCall("svg"))
             /\ RunReturn(RunErr("Boxed", "run_examples"))
        ELSE /\ opened' = opened \o <<"example_key", "example_svg", "example_png">>
             /\ invoked' = invoked \o <<ExampleCall("svg"), ExampleCall("png")>>
             /\ RunReturn(IF png_ok THEN RunOk ELSE RunErr("Boxed", "run_examples"))
    /\ UNCHANGED <<settings, baking_content, pvars, tvars, vvars, cvars>>

\* A read_assertion that does not look at the verification type.
ReadAssertionUnchecked ==
    /\ rpc = "read_assertion"
    /\ IF settings.assertion_file = "missing"
       THEN /\ RunReturn(RunErr("Boxed", "read_assertion"))
            /\ UNCHANGED opened
       ELSE /\ opened' = Append(opened, "assertion")
            /\ IF settings.assertion_file = "malformed"
               THEN RunReturn(RunErr("Boxed", "read_assertion"))
               ELSE RunGoOn("read_assertion")
    /\ UNCHANGED <<settings, invoked, baking_content, pvars, tvars, vvars, cvars>>
\* read_assertion, process.rs:150-164
ReadAssertion ==
    /\ rpc = "read_assertion"
    /\ IF settings.assertion_file = "missing"
       THEN /\ RunReturn(RunErr("Boxed", "read_assertion"))
            /\ UNCHANGED opened
       ELSE /\ opened' = Append(opened, "assertion")
            /\ IF settings.assertion_file = "malformed"
               THEN RunReturn(RunErr("Boxed", "read_assertion"))
               ELSE IF settings.assertion_file = "VerificationObject"
               THEN RunReturn(RunErr("InvalidSettings", "read_assertion"))
               ELSE RunGoOn("read_assertion")
    /\ UNCHANGED <<settings, invoked, baking_content, pvars, tvars, vvars, cvars>>

\* read_priv_key_opt, process.rs:166-183, and signature::load_private_key_pair
ReadPrivKeyOpt ==
    /\ rpc = "read_priv_key_opt"
    /\ IF ~settings.sign_key_loc
       THEN /\ RunGoOn("read_priv_key_opt")
            /\ UNCHANGED opened
       ELSE IF settings.sign_alg = "None"
       THEN /\ RunReturn(RunErr("Boxed", "read_priv_key_opt"))
            /\ UNCHANGED opened
       ELSE IF settings.key_file = "missing"
       THEN /\ RunReturn(RunErr("InvalidSigningPrivateKey", "read_priv_key_opt"))
            /\ UNCHANGED opened
       ELSE /\ opened' = Append(opened, "key")
            /\ \E ok \in BOOLEAN :
                IF ok THEN RunGoOn("read_priv_key_opt")
                      ELSE RunReturn(RunErr("InvalidSigningPrivateKey", "read_priv_key_opt"))
    /\ UNCHANGED <<settings, invoked, baking_content, pvars, tvars, vvars, cvars>>

\* read_cert_chain_opt, process.rs:185-232: a location that is no Unicode is
\* rejected, any other runs into todo!()
ReadCertChainOpt ==
    /\ rpc = "read_cert_chain_opt"
    /\ IF settings.cert_loc
       THEN \E unicode \in BOOLEAN :
            IF unicode THEN RunReturn(RunErr("panic", "read_cert_chain_opt"))
                       ELSE RunReturn(RunErr("InvalidCertificate", "read_cert_chain_opt"))
       ELSE RunGoOn("read_cert_chain_opt")
    /\ UNCHANGED <<settings, invoked, baking_content, opened, pvars, tvars, vvars, cvars>>

IsImageType(t) == t = Svg \/ t = Png

\* A parse_image_types that does not compare the two types.
ParseWithoutComparison(source_image_type, baked_type) ==
    IF ~IsImageType(source_image_type) THEN RunErr("InvalidSettings", "source_image_path")
    ELSE IF ~IsImageType(baked_type) THEN RunErr("InvalidSettings", "baked_image_path")
    ELSE RunOk
\* parse_image_types, process.rs:234-252: what it returns for the two types.
ParseImageTypesResult(source_image_type, baked_type) ==
    IF ~IsImageType(source_image_type) THEN RunErr("InvalidSettings", "source_image_path")
    ELSE IF ~IsImageType(baked_type) THEN RunErr("InvalidSettings", "baked_image_path")
    ELSE IF source_image_type # baked_type THEN RunErr("InvalidSettings", "image_types_differ")
    ELSE RunOk

ParseImageTypes ==
    /\ rpc = "parse_image_types"
    /\ LET r == ParseImageTypesResult(ImageTypeTryFrom(settings.source_image_loc.value),
                                      ImageTypeTryFrom(settings.baked_loc.value)) IN
       IF r = RunOk THEN RunGoOn("parse_image_types") ELSE RunReturn(r)
    /\ UNCHANGED <<settings, invoked, baking_content, opened, pvars, tvars, vvars, cvars>>

\* A match that looks at the key before the verification type.
BakingContentKeyFirst(verification_type, key_priv_present) ==
    IF key_priv_present
    THEN IF verification_type = "SignedBadge"
         THEN [tag |-> "Ok", from |-> "sign_with_cert"]
         ELSE RunErr("InvalidSettings", "create_baking_content")
    ELSE IF verification_type = "HostedBadge"
         THEN [tag |-> "Ok", from |-> "to_string_pretty"]
         ELSE RunErr("InvalidSettings", "create_baking_content")
\* create_baking_content, process.rs:254-298
BakingContent(verification_type, key_priv_present) ==
    CASE verification_type = "VerificationObject" -> RunErr("Impossible", "create_baking_content")
      [] verification_type = "HostedBadge" /\ key_priv_present ->
            RunErr("InvalidSettings", "create_baking_content")
      [] verification_type = "SignedBadge" /\ ~key_priv_present ->
            RunErr("InvalidSettings", "create_baking_content")
      [] verification_type = "SignedBadge" /\ key_priv_present -> [tag |-> "Ok", from |-> "sign_with_cert"]
      [] verification_type = "HostedBadge" /\ ~key_priv_present -> [tag |-> "Ok", from |-> "to_string_pretty"]

\* The payload a content is: the pretty-printed JSON of the assertion is one
\* text, the signed compact string another.
Content(from) == IF from = "to_string_pretty" THEN "A" ELSE "B"

CreateBakingContent ==
    /\ rpc = "create_baking_content"
    /\ LET r == BakingContent(settings.assertion_file, settings.sign_key_loc) IN
       IF r.tag # "Ok"
       THEN /\ RunReturn(r)
            /\ UNCHANGED baking_content
       ELSE \E ok \in BOOLEAN :
            IF ok THEN /\ RunGoOn("create_baking_content")
                       /\ baking_content' = Content(r.from)
                  ELSE /\ RunReturn(RunErr("Boxed", r.from))
                       /\ UNCHANGED baking_content
    /\ UNCHANGED <<settings, invoked, opened, pvars, tvars, vvars, cvars>>

\* A match that calls the PNG patcher for every type.
DispatchPng(source_image_type) == "png"
\* process.rs:338-355: the patcher the match on the source image's type calls.
Dispatch(source_image_type) ==
    CASE source_image_type = Svg -> "svg"
      [] source_image_type = Png -> "png"
      [] OTHER -> "none"
\* process.rs:332
fail_if_veri_present == TRUE

\* process.rs:338-355: run calls the patcher of the source image's type with
\* the two locations and the baking content.  The file at the source
\* location is any file of that type.
RunRewrite ==
    /\ rpc = "rewrite"
    /\ LET p == Dispatch(ImageTypeTryFrom(settings.source_image_loc.value)) IN
       IF p = "none"
       THEN /\ RunGoOn("rewrite")
            /\ UNCHANGED <<invoked, patcher, input_file, verify, fail_if_verify_present, pc>>
       ELSE /\ rpc' = "rewriting"
            /\ invoked' = Append(invoked, Call(p, settings.source_image_loc.value,
                                               settings.baked_loc.value, baking_content,
                                               fail_if_veri_present))
            /\ patcher' = p
            /\ input_file' \in (IF p = "png" THEN PngFiles ELSE SvgFiles)
            /\ verify' = baking_content
            /\ fail_if_verify_present' = fail_if_veri_present
            /\ pc' = "open_input"
            /\ UNCHANGED rresult
    /\ UNCHANGED <<settings, baking_content, opened, call, output_file, info, encoder,
                   verify_already_as_proposed, idx, passed_init_elem, result, faulted,
                   frame_errors, first, tvars, vvars, cvars>>

\* process.rs:340-354: the `?` behind the call hands the patcher's error on.
RunRewritten ==
    /\ rpc = "rewriting" /\ pc = "done"
    /\ IF result = Ok THEN RunGoOn("rewrite") ELSE RunReturn(RunErr(result.tag, "rewrite"))
    /\ UNCHANGED <<settings, invoked, baking_content, opened, pvars, tvars, vvars, cvars>>

RunNext ==
    \/ RunStart \/ RunExamples \/ ReadAssertion \/ ReadPrivKeyOpt \/ ReadCertChainOpt
    \/ ParseImageTypes \/ CreateBakingContent \/ RunRewrite
    \/ PngNext \/ SvgNext \/ RunRewritten

SpecRun == InitRun /\ [][RunNext]_vars

(***************************************************************************)
(* create_baking_content(assertion, alg, key_priv_opt, x509_chain),        *)
(* src/process.rs:254-298, called with any arguments.  Of the assertion    *)
(* its verification type counts, of the key its kind, of the chain its     *)
(* presence.                                                               *)
(***************************************************************************)
Algorithms == {"None", "RS256", "RS384", "RS512", "ES256", "ES384"}
Secrets == {"RsaKeyPair", "EcdsaKeyPair"}
\* VerificationType: SignedBadge carries an optional creator.
Verifications ==
    {[type |-> "HostedBadge", creator |-> FALSE],
     [type |-> "VerificationObject", creator |-> FALSE],
     [type |-> "SignedBadge", creator |-> FALSE],
     [type |-> "SignedBadge", creator |-> TRUE]}

InitContent ==
    /\ args \in [verification : Verifications, alg : Algorithms,
                 key_priv_opt : {NoPath} \cup {Some(k) : k \in Secrets},
                 x509_chain : BOOLEAN]
    /\ returned = RunNone
    /\ patcher = "png" /\ call = 1
    /\ input_file = [head |-> <<>>, frames |-> <<>>, tail |-> <<>>]
    /\ verify = "A" /\ fail_if_verify_present = TRUE
    /\ pc = "idle" /\ output_file = NoOutput /\ info = NoInfo /\ encoder = NoEncoder
    /\ verify_already_as_proposed = FALSE /\ idx = 1 /\ passed_init_elem = FALSE
    /\ result = Running /\ faulted = FALSE /\ frame_errors = 0 /\ first = NoFirst
    /\ path = <<>> /\ classified = NotClassified
    /\ settings = [assertion_loc |-> FALSE]
    /\ rpc = "idle" /\ opened = <<>> /\ rresult = RunNone
    /\ invoked = <<>> /\ baking_content = "unset"
    /\ level = "Info" /\ steps = 0 /\ method = "idle" /\ new_level = "unset"

\* The match of process.rs:264-296; signature::sign_with_cert and
\* serde_json::to_string_pretty may fail, and `?` hands their error on.
create_baking_content ==
    /\ returned = RunNone
    /\ LET r == BakingContent(args.verification.type, args.key_priv_opt.some) IN
       IF r.tag # "Ok" THEN returned' = r
       ELSE \E ok \in BOOLEAN :
            returned' = IF ok THEN r ELSE RunErr("Boxed", r.from)
    /\ UNCHANGED <<args, pvars, tvars, rvars, vvars>>

SpecContent == InitContent /\ [][create_baking_content]_vars

(***************************************************************************)
(* Verbosity, src/settings.rs:26-65.  VARIANTS_LIST holds the variants in  *)
(* the order of the enum; index is the place of a variant, from 0.  The    *)
(* steps are those of a u8 count (main.rs:375); within the bound the sum   *)
(* of index and steps stays below usize::MAX, where saturating_add is the  *)
(* sum.                                                                    *)
(***************************************************************************)
VARIANTS_LIST == <<"None", "Errors", "Warnings", "Info", "Debug", "Trace">>
Verbosity == SeqToSet(VARIANTS_LIST)
Index(v) == (CHOOSE i \in 1..Len(VARIANTS_LIST) : VARIANTS_LIST[i] = v) - 1
SaturatingAdd(a, b) == a + b
SaturatingSub(a, b) == IF b > a THEN 0 ELSE a - b
\* settings.rs:53-56
up_max(v, n) == VARIANTS_LIST[(SaturatingAdd(Index(v), n) % Len(VARIANTS_LIST)) + 1]
\* settings.rs:61-64
down_max(v, n) == VARIANTS_LIST[SaturatingSub(Index(v), n) + 1]

InitVerbosity ==
    /\ level \in Verbosity
    /\ steps \in 0..MaxSteps
    /\ method \in {"up_max", "down_max"}
    /\ new_level = "unset"
    /\ args = [alg |-> "None"] /\ returned = [tag |-> "None", from |-> "run"]
    /\ patcher = "png" /\ call = 1
    /\ input_file = [head |-> <<>>, frames |-> <<>>, tail |-> <<>>]
    /\ verify = "A" /\ fail_if_verify_present = TRUE
    /\ pc = "idle" /\ output_file = NoOutput /\ info = NoInfo /\ encoder = NoEncoder
    /\ verify_already_as_proposed = FALSE /\ idx = 1 /\ passed_init_elem = FALSE
    /\ result = Running /\ faulted = FALSE /\ frame_errors = 0 /\ first = NoFirst
    /\ path = <<>> /\ classified = NotClassified
    /\ settings = [assertion_loc |-> FALSE]
    /\ rpc = "idle" /\ opened = <<>> /\ rresult = [tag |-> "None", from |-> "run"]
    /\ invoked = <<>> /\ baking_content = "unset"
UpMax ==
    /\ method = "up_max" /\ new_level = "unset"
    /\ new_level' = up_max(level, steps)
    /\ UNCHANGED <<level, steps, method, pvars, tvars, rvars, cvars>>
DownMax ==
    /\ method = "down_max" /\ new_level = "unset"
    /\ new_level' = down_max(level, steps)
    /\ UNCHANGED <<level, steps, method, pvars, tvars, rvars, cvars>>
VerbosityNext == UpMax \/ DownMax
SpecVerbosity == InitVerbosity /\ [][VerbosityNext]_vars

(***************************************************************************)
(* What the claims speak about.                                            *)
(***************************************************************************)
Done == pc = "done"

\* PNG: the text chunks of a file in file order, and of the output.
FileChunks(file) == file.head \o file.tail
WrittenItems(kind) == SelectSeq(output_file.data, LAMBDA x : x.item = kind)
OutChunks == [i \in 1..Len(WrittenItems("chunk")) |-> WrittenItems("chunk")[i].chunk]
OutFrames == [i \in 1..Len(WrittenItems("frame")) |-> WrittenItems("frame")[i].data]

IsMarkerChunk(c) == c.kind = "iTXt" /\ c.keyword = "openbadges"
MarkerChunks(chunks) == SelectSeq(chunks, IsMarkerChunk)
MarkerTextsOf(chunks) == {MarkerChunks(chunks)[i].text : i \in 1..Len(MarkerChunks(chunks))}

\* keyword, kind and text of the chunks whose keyword is not "openbadges"
Cargo(chunks) ==
    [i \in 1..Len(SelectSeq(chunks, LAMBDA c : c.keyword # "openbadges")) |->
        LET c == SelectSeq(chunks, LAMBDA d : d.keyword # "openbadges")[i]
        IN <<c.keyword, c.kind, c.text>>]

\* SVG: the nodes of a file; an openbadges:assertion element; the root.
IsElement(n) == n.type \in {"StartElement", "EndElement"}
IsAssertionTag(n) ==
    /\ IsElement(n)
    /\ n.name.local_name = "assertion"
    /\ n.name.prefix = "openbadges"
IsAssertionStart(n) == IsAssertionTag(n) /\ n.type = "StartElement"

AssertionStarts(nodes) == SelectSeq(nodes, IsAssertionStart)
VerifyValuesOf(nodes) ==
    {VerifyAttrVal(AssertionStarts(nodes)[i]) : i \in 1..Len(AssertionStarts(nodes))}

\* The document's root element is an svg element.
HasSvgRoot(nodes) ==
    /\ nodes # <<>>
    /\ nodes[1].type = "StartElement"
    /\ nodes[1].name.local_name = "svg"
    /\ nodes[1].name.namespace = SVG_NS

\* A node without the namespace mapping in scope.
Bare(n) ==
    IF n.type = "StartElement"
    THEN [type |-> n.type, name |-> n.name, attributes |-> n.attributes]
    ELSE n
\* The nodes under the root that belong to no assertion element.
Inner(nodes) == SubSeq(nodes, 2, Len(nodes) - 1)
NonAssertion(nodes) ==
    [i \in 1..Len(SelectSeq(Inner(nodes), LAMBDA n : ~IsAssertionTag(n))) |->
        Bare(SelectSeq(Inner(nodes), LAMBDA n : ~IsAssertionTag(n))[i])]

OutNodes == SvgReadBack(output_file.data)

\* The payloads an image is marked with, and the payloads of the output.
MarkersIn(file) ==
    IF patcher = "png" THEN MarkerTextsOf(FileChunks(file)) ELSE VerifyValuesOf(file)
NumMarkersOut ==
    IF patcher = "png" THEN Len(MarkerChunks(OutChunks)) ELSE Len(AssertionStarts(OutNodes))
MarkersOut ==
    IF patcher = "png" THEN MarkerTextsOf(OutChunks) ELSE VerifyValuesOf(OutNodes)

\* A valid source image of the patcher called.
ValidSource(file) == patcher = "svg" => HasSvgRoot(file)

(***************************************************************************)
(* C1  PNG: whenever rewrite returns Ok, the output holds exactly one iTXt *)
(* chunk with keyword "openbadges", and its text is verify.                *)
(* The code re-emits every source marker that equals verify, so a source   *)
(* with two such chunks yields two.                                        *)
(***************************************************************************)
C1_ExactlyOneMarkerPng ==
    (patcher = "png" /\ call = 1 /\ Done /\ result = Ok)
        => /\ Len(MarkerChunks(OutChunks)) = 1
           /\ MarkerTextsOf(OutChunks) = {verify}

(***************************************************************************)
(* C2  SVG: whenever rewrite returns Ok on a document whose root is an svg *)
(* element, the output holds exactly one openbadges:assertion element, it  *)
(* is the first child of the root, and its verify attribute is verify.     *)
(***************************************************************************)
C2_ExactlyOneAssertionSvg ==
    (patcher = "svg" /\ call = 1 /\ Done /\ result = Ok /\ HasSvgRoot(input_file))
        => /\ Len(AssertionStarts(OutNodes)) = 1
           /\ IsAssertionStart(OutNodes[2])
           /\ VerifyAttrVal(OutNodes[2]) = verify

(***************************************************************************)
(* C3  Idempotence: after rewrite(source, out1, P, any) returned Ok, the   *)
(* call rewrite(out1, out2, P, true) returns Ok, and out2 holds a marker   *)
(* with text P and no second marker.                                       *)
(***************************************************************************)
C3_Idempotent ==
    (call = 2 /\ Done /\ ~faulted /\ ~first.faulted /\ ValidSource(first.input_file))
        => /\ result = Ok
           /\ MarkersOut = {verify}
           /\ NumMarkersOut = 1

(***************************************************************************)
(* C4  Conflict detection: rewriting an image marked with payload A, with  *)
(* a proposed payload B # A and fail_if_verify_present = true, returns     *)
(* VerifyAlreadySet{present: A, proposed: B}.                              *)
(***************************************************************************)
C4_ConflictDetected ==
    \A a \in Texts :
        (/\ call = 1 /\ Done /\ ~faulted /\ ValidSource(input_file)
         /\ fail_if_verify_present
         /\ MarkersIn(input_file) = {a} /\ a # verify)
            => result = VerifyAlreadySet(a, verify)

(***************************************************************************)
(* C5  Overwrite: rewriting an image marked with payload A, with a         *)
(* proposed payload B # A and fail_if_verify_present = false, returns Ok;  *)
(* the output's marker carries B and no marker carrying A remains.         *)
(***************************************************************************)
C5_Overwritten ==
    \A a \in Texts :
        (/\ call = 1 /\ Done /\ ~faulted /\ ValidSource(input_file)
         /\ ~fail_if_verify_present
         /\ MarkersIn(input_file) = {a} /\ a # verify)
            => /\ result = Ok
               /\ MarkersOut = {verify}

(***************************************************************************)
(* C6  Preservation (PNG): a successful rewrite emits the source's text    *)
(* chunks whose keyword is not "openbadges" with keyword, kind and text    *)
(* unchanged and in their original order, and the same frame data.         *)
(***************************************************************************)
C6_PreservedPng ==
    (patcher = "png" /\ call = 1 /\ Done /\ result = Ok /\ ~faulted)
        => /\ Cargo(OutChunks) = Cargo(FileChunks(input_file))
           /\ OutFrames = input_file.frames

(***************************************************************************)
(* C7  Preservation (SVG): a successful rewrite emits the nodes under the  *)
(* root that are no assertion element unchanged and in the same order,     *)
(* plus exactly one openbadges:assertion element, and the root declares    *)
(* xmlns:openbadges.                                                       *)
(***************************************************************************)
C7_PreservedSvg ==
    (patcher = "svg" /\ call = 1 /\ Done /\ result = Ok /\ ~faulted /\ HasSvgRoot(input_file))
        => /\ NonAssertion(OutNodes) = NonAssertion(input_file)
           /\ Len(AssertionStarts(OutNodes)) = 1
           /\ Contains(OutNodes[1].namespace, "openbadges")

(***************************************************************************)
(* C8  ImageType::try_from(path) returns Svg exactly when the extension    *)
(* of the path equals "svg" ignoring letter case, Png exactly when it      *)
(* equals "png" ignoring letter case, ExtensionExtraction when the path    *)
(* has no extension or the extension is not valid UTF-8, and Unsupported,  *)
(* carrying the extension as written, for every other extension; never an  *)
(* I/O error.                                                              *)
(***************************************************************************)
EqIgnoreCase(a, b) ==
    /\ Len(a) = Len(b)
    /\ \A i \in 1..Len(a) : a[i] = b[i] \/ {a[i], b[i]} = {"s", "S"}
HasExtension(p) == Extension(p) # NoOsStr
IsSvgPath(p) == HasExtension(p) /\ EqIgnoreCase(Extension(p), <<"s", "v", "g">>)
IsPngPath(p) == HasExtension(p) /\ EqIgnoreCase(Extension(p), <<"p", "n", "g">>)
Classified == classified # NotClassified

C8_Classification ==
    Classified =>
        /\ classified = Svg <=> IsSvgPath(path)
        /\ classified = Png <=> IsPngPath(path)
        /\ classified.tag = "ExtensionExtraction"
             <=> (~HasExtension(path) \/ ~IsUtf8(Extension(path)))
        /\ (HasExtension(path) /\ IsUtf8(Extension(path))
              /\ ~IsSvgPath(path) /\ ~IsPngPath(path))
             => classified = Unsupported(Extension(path))
        /\ classified.tag \in {"Svg", "Png", "ExtensionExtraction", "Unsupported"}

\* C8, its case: a path whose extension is not valid UTF-8 has been classified.
C8_Witness ==
    /\ Classified
    /\ HasExtension(path) /\ ~IsUtf8(Extension(path))
    /\ classified.tag = "ExtensionExtraction"

\* C8 as stated: ExtensionExtraction only for a path without extension, and
\* Unsupported for every extension that is neither "svg" nor "png".
C8_AsStated ==
    Classified =>
        /\ classified = Svg <=> IsSvgPath(path)
        /\ classified = Png <=> IsPngPath(path)
        /\ classified.tag = "ExtensionExtraction" <=> ~HasExtension(path)
        /\ (HasExtension(path) /\ ~IsSvgPath(path) /\ ~IsPngPath(path))
             => classified = Unsupported(Extension(path))

(***************************************************************************)
(* C9  Ordering in process::run: when the source-image path or the         *)
(* baked-image path has a missing or unsupported extension, run opens or   *)
(* creates neither the source image nor the destination image, and the     *)
(* classification error is raised after the assertion file, and the        *)
(* private-key file when one is configured, has been opened.               *)
(***************************************************************************)
Bakes ==
    settings.assertion_loc /\ settings.source_image_loc.some /\ settings.baked_loc.some
BadExtension(loc) == ~IsImageType(ImageTypeTryFrom(loc.value))
ClassificationError ==
    /\ rresult.tag = "InvalidSettings"
    /\ rresult.from \in {"source_image_path", "baked_image_path"}

C9_ClassifiedBeforeImages ==
    /\ (Bakes /\ (BadExtension(settings.source_image_loc) \/ BadExtension(settings.baked_loc)))
         => /\ "source_image" \notin SeqToSet(opened)
            /\ "baked" \notin SeqToSet(opened)
    /\ ClassificationError
         => opened = IF settings.sign_key_loc THEN <<"assertion", "key">> ELSE <<"assertion">>

\* C9, its case: the baked-image path is rejected after both files were read.
C9_Witness ==
    /\ rpc = "done"
    /\ rresult = RunErr("InvalidSettings", "baked_image_path")
    /\ opened = <<"assertion", "key">>

\* C9 as stated: the classification error is raised before any file is opened.
C9_AsStated == ClassificationError => opened = <<>>

(***************************************************************************)
(* C10  No error is swallowed: rewrite returns Ok only if no read, decode, *)
(* encode or write step failed and every source frame was written.         *)
(***************************************************************************)
C10_NoErrorSwallowed ==
    (Done /\ result = Ok)
        => /\ ~faulted
           /\ (patcher = "png" => OutFrames = input_file.frames)

(***************************************************************************)
(* C14  Verbosity::up_max(steps) returns the level steps places above self *)
(* and halts at the top level Trace, never returning a level below self;   *)
(* Verbosity::down_max(steps) returns the level steps places below self    *)
(* and halts at the bottom level None.                                     *)
(***************************************************************************)
Halted(i) == IF i < 0 THEN 0 ELSE IF i > Len(VARIANTS_LIST) - 1 THEN Len(VARIANTS_LIST) - 1 ELSE i
C14_HaltsAtBounds ==
    new_level # "unset" =>
        /\ method = "up_max" => /\ Index(new_level) = Halted(Index(level) + steps)
                                /\ Index(new_level) >= Index(level)
        /\ method = "down_max" => Index(new_level) = Halted(Index(level) - steps)

(***************************************************************************)
(* C11  PNG, no partial overwrite: the scan of the source's iTXt chunks    *)
(* for a conflicting "openbadges" marker is over before the header, a text *)
(* chunk or pixel data is written; whenever VerifyAlreadySet is returned,  *)
(* nothing has been written to the destination.                            *)
(***************************************************************************)
Conflicting(c) == IsMarkerChunk(c) /\ c.text # verify
SourceEvents == EventReader(input_file)
\* The events behind the one that follows the root start element, as the
\* writer gets them when they are forwarded unchanged.
Streamed ==
    [i \in 1..(Len(SourceEvents) - 4) |-> AsWriterEvent(SourceEvents[i + 3])]
C12_DecidedOnce ==
    (patcher = "svg" /\ call = 1 /\ Done /\ result = Ok /\ HasSvgRoot(input_file))
        => /\ Len(output_file.data) <= Len(SourceEvents) + 1
           /\ SubSeq(output_file.data,
                     Len(output_file.data) - Len(Streamed) + 1,
                     Len(output_file.data)) = Streamed

(***************************************************************************)
(* C13  SVG namespace: after a successful rewrite the root svg start       *)
(* element declares the prefix openbadges bound to "http://openbadges.org",*)
(* whatever the source declared (nothing, that URI, or another URI), and   *)
(* every other namespace declaration and attribute of the root is as in    *)
(* the source.                                                             *)
(***************************************************************************)
OtherMappings(namespace) == {m \in namespace : m[1] # "openbadges"}
C13_RootDeclaresOpenbadges ==
    (patcher = "svg" /\ call = 1 /\ Done /\ result = Ok /\ HasSvgRoot(input_file))
        => /\ Get(OutNodes[1].namespace, "openbadges") = OB_NS
           /\ OtherMappings(OutNodes[1].namespace) = OtherMappings(input_file[1].namespace)
           /\ OutNodes[1].attributes = input_file[1].attributes
           /\ OutNodes[1].name = input_file[1].name

(***************************************************************************)
(* C15  process::parse_image_types succeeds only when both paths classify, *)
(* and to the same ImageType: when the source-image path and the           *)
(* baked-image path classify to different types it returns                 *)
(* Error::InvalidSettings, and run invokes neither patcher.                *)
(***************************************************************************)
SourceType == ImageTypeTryFrom(settings.source_image_loc.value)
BakedType == ImageTypeTryFrom(settings.baked_loc.value)
TypesDiffer == IsImageType(SourceType) /\ IsImageType(BakedType) /\ SourceType # BakedType
\* run has left parse_image_types behind without an error.
ParsedTypes ==
    \/ rpc \in {"create_baking_content", "rewrite", "rewriting"}
    \/ rpc = "done" /\ rresult.from \in {"create_baking_content", "sign_with_cert",
                                        "to_string_pretty", "rewrite", "run"}
BeforeParsing == {"read_assertion", "read_priv_key_opt", "read_cert_chain_opt"}
C15_MismatchRejected ==
    Bakes =>
        /\ ParsedTypes => (IsImageType(SourceType) /\ SourceType = BakedType)
        /\ TypesDiffer
             => /\ invoked = <<>>
                /\ "source_image" \notin SeqToSet(opened)
                /\ "baked" \notin SeqToSet(opened)
                /\ rpc = "done"
                     => \/ rresult.from \in BeforeParsing
                        \/ rresult = RunErr("InvalidSettings", "image_types_differ")

\* C15, its case: an svg source and a png destination are rejected.
C15_Witness ==
    /\ Bakes
    /\ rpc = "done"
    /\ SourceType = Svg /\ BakedType = Png
    /\ rresult = RunErr("InvalidSettings", "image_types_differ")
    /\ invoked = <<>>

(***************************************************************************)
(* C16  SVG, assertion without verify: when the event directly after the   *)
(* root start element is an openbadges:assertion start element without     *)
(* verify attribute, rewrite writes a new openbadges:assertion start and   *)
(* end element carrying verify and then forwards the existing element      *)
(* unmodified, so that the output holds two sibling assertion elements;    *)
(* so for both values of fail_if_verify_present, and VerifyAlreadySet is   *)
(* never raised.                                                           *)
(***************************************************************************)
HasVerify(evt) == \E i \in 1..Len(evt.attributes) : evt.attributes[i].name.local_name = "verify"
IsMarkerStart(evt) == IsAssertionStart(evt) /\ evt.name.namespace = OB_NS
\* The event directly after the root start element.
AfterRoot == SourceEvents[3]
\* A new assertion start element carrying v, as rewrite writes it.
IsNewAssertion(evt, v) ==
    /\ IsAssertionStart(evt)
    /\ evt.attributes = <<VerifyAttr(v)>>
\* The event after the root start element has been handled.
Decided == Len(output_file.data) > 2

C16_BareAssertionKept ==
    (/\ patcher = "svg" /\ call = 1 /\ HasSvgRoot(input_file)
     /\ IsMarkerStart(AfterRoot) /\ ~HasVerify(AfterRoot))
        => /\ Decided => /\ IsNewAssertion(output_file.data[3], verify)
                         /\ output_file.data[4].type = "EndElement"
                         /\ output_file.data[5] = AfterRoot
           /\ result.tag # "VerifyAlreadySet"
           /\ (Done /\ result = Ok)
                => /\ IsNewAssertion(OutNodes[2], verify)
                   /\ IsMarkerStart(OutNodes[4]) /\ ~HasVerify(OutNodes[4])

(***************************************************************************)
(* C17  SVG marker absent: when the event directly after the root svg      *)
(* start element is anything other than an openbadges:assertion start      *)
(* element (whitespace, another element, the root's own end element),      *)
(* rewrite writes exactly one new openbadges:assertion start and end       *)
(* element carrying verify directly before that event and then forwards    *)
(* the event unchanged; the decision raises no error.                      *)
(***************************************************************************)
AfterSvgRoot ==
    /\ patcher = "svg" /\ call = 1
    /\ IsInitElem(SourceEvents[2])
ReplaceVerify(attributes, v) ==
    [i \in 1..Len(attributes) |->
        IF attributes[i].name.local_name = "verify"
        THEN [attributes[i] EXCEPT !.value = v]
        ELSE attributes[i]]
Overwriting ==
    /\ AfterSvgRoot
    /\ IsMarkerStart(AfterRoot) /\ HasVerify(AfterRoot)
    /\ VerifyAttrVal(AfterRoot) # verify
    /\ ~fail_if_verify_present
C18_ElementKept ==
    (Overwriting /\ Decided)
        => /\ output_file.data[3].type = "StartElement"
           /\ output_file.data[3].name.local_name = AfterRoot.name.local_name
           /\ output_file.data[3].name.prefix = AfterRoot.name.prefix
           /\ output_file.data[3].attributes = ReplaceVerify(AfterRoot.attributes, verify)

(***************************************************************************)
(* C19  SVG conflict stops output: when rewrite returns VerifyAlreadySet,  *)
(* the events written are exactly the source events up to and including    *)
(* the root start element (with the openbadges mapping added): neither     *)
(* the conflicting element nor a later event nor a new assertion element   *)
(* has been written.                                                       *)
(***************************************************************************)
UpToRoot == <<StartDocument, AddNamespace(AsWriterEvent(SourceEvents[2]))>>
C19_OutputStopsAtRoot ==
    (patcher = "svg" /\ call = 1 /\ result.tag = "VerifyAlreadySet")
        => output_file.data = UpToRoot

(***************************************************************************)
(* C20  PNG marker position: when the source has no "openbadges" iTXt      *)
(* chunk whose text equals verify, a successful rewrite writes the new     *)
(* marker chunk exactly once, behind every re-emitted tEXt, zTXt and iTXt  *)
(* chunk and before the first frame; when the source has such a chunk, no  *)
(* new marker chunk is written.                                            *)
(***************************************************************************)
HasMatchingChunk ==
    \E i \in 1..Len(FileChunks(input_file)) :
        /\ IsMarkerChunk(FileChunks(input_file)[i])
        /\ FileChunks(input_file)[i].text = verify
\* What write_header has written: the header and the re-emitted chunks.
ReEmitted == WriteHeader(encoder)
\* Behind them stand the new marker chunk, once, and then frames only.
NewMarkerOnce ==
    /\ Len(output_file.data) > Len(ReEmitted)
    /\ SubSeq(output_file.data, 1, Len(ReEmitted)) = ReEmitted
    /\ output_file.data[Len(ReEmitted) + 1] = ChunkItem(NewITXt("openbadges", verify))
    /\ \A i \in (Len(ReEmitted) + 2)..Len(output_file.data) : output_file.data[i].item = "frame"
\* Behind them stand frames only.
NoNewMarker ==
    /\ SubSeq(output_file.data, 1, Len(ReEmitted)) = ReEmitted
    /\ \A i \in (Len(ReEmitted) + 1)..Len(output_file.data) : output_file.data[i].item = "frame"
C20_MarkerPosition ==
    (patcher = "png" /\ call = 1 /\ Done /\ result = Ok)
        => IF HasMatchingChunk THEN NoNewMarker ELSE NewMarkerOnce

(***************************************************************************)
(* C21  PNG frames: a successful rewrite of a source with f frames has     *)
(* written exactly f frame buffers, in source order, each the decoded      *)
(* source frame, and the loop over the frames has ended behind the last    *)
(* source frame.                                                           *)
(***************************************************************************)
C21_EveryFrameCopied ==
    (patcher = "png" /\ call = 1 /\ Done /\ result = Ok)
        => /\ Len(OutFrames) = Len(input_file.frames)
           /\ \A i \in 1..Len(OutFrames) : OutFrames[i] = input_file.frames[i]
           /\ idx = Len(input_file.frames) + 1

(***************************************************************************)
(* C22  process::run dispatches on the classified source image type: a     *)
(* run that reaches the match calls svg Patcher::rewrite exactly once and  *)
(* never the PNG patcher when the type is Svg, png Patcher::rewrite        *)
(* exactly once and never the SVG patcher when the type is Png, and it     *)
(* passes the source path, the baked path and the baking content.          *)
(***************************************************************************)
PatcherOf(t) == IF t = Svg THEN "svg" ELSE "png"
\* run has reached the match on the source image's type.
ReachedMatch ==
    \/ rpc = "rewriting"
    \/ rpc = "done" /\ rresult.from \in {"rewrite", "run"}
C22_Dispatch ==
    Bakes =>
        /\ Len(invoked) <= 1
        /\ ReachedMatch => Len(invoked) = 1
        /\ \A i \in 1..Len(invoked) :
            /\ IsImageType(SourceType)
            /\ invoked[i].patcher = PatcherOf(SourceType)
            /\ invoked[i].input_file = settings.source_image_loc.value
            /\ invoked[i].output_file = settings.baked_loc.value
            /\ invoked[i].verify = baking_content
            /\ baking_content \in Texts
            /\ patcher = invoked[i].patcher
            /\ verify = invoked[i].verify

\* C22, its case: an SVG source was baked by the SVG patcher.
C22_Witness ==
    /\ Bakes
    /\ rpc = "done" /\ rresult = RunOk
    /\ SourceType = Svg
    /\ Len(invoked) = 1
    /\ invoked[1].patcher = "svg"
    /\ patcher = "svg" /\ pc = "done" /\ result = Ok

(***************************************************************************)
(* C23  process::create_baking_content decides on the verification type    *)
(* and the presence of a private key: HostedBadge without key takes the    *)
(* route of the pretty-printed JSON, SignedBadge with key the route of the *)
(* signed compact string (each returns that content, or the error of that  *)
(* route); HostedBadge with key and SignedBadge without key return         *)
(* InvalidSettings; VerificationObject returns Impossible with and without *)
(* key.  Content comes by no other route.                                  *)
(***************************************************************************)
Returned == returned # RunNone
Route(from) == {[tag |-> "Ok", from |-> from], RunErr("Boxed", from)}
C23_DecisionTable ==
    Returned =>
        LET type == args.verification.type
            key == args.key_priv_opt.some
        IN /\ (type = "HostedBadge" /\ ~key) => returned \in Route("to_string_pretty")
           /\ (type = "SignedBadge" /\ key) => returned \in Route("sign_with_cert")
           /\ (type = "HostedBadge" /\ key)
                => returned = RunErr("InvalidSettings", "create_baking_content")
           /\ (type = "SignedBadge" /\ ~key)
                => returned = RunErr("InvalidSettings", "create_baking_content")
           /\ type = "VerificationObject"
                => returned = RunErr("Impossible", "create_baking_content")
           /\ returned.tag = "Ok"
                => \/ type = "HostedBadge" /\ ~key /\ returned.from = "to_string_pretty"
                   \/ type = "SignedBadge" /\ key /\ returned.from = "sign_with_cert"

\* C23, its case: a VerificationObject assertion with a key is Impossible.
C23_Witness ==
    /\ Returned
    /\ args.verification.type = "VerificationObject"
    /\ args.key_priv_opt.some
    /\ returned.tag = "Impossible"

(***************************************************************************)
(* C24  process::run bakes the user's image only when assertion location,  *)
(* source-image location and baked location are all set; when one of them  *)
(* is missing it opens none of the given files and runs run_examples       *)
(* instead.                                                                *)
(***************************************************************************)
GivenFiles == {"assertion", "key", "source_image", "baked"}
ExampleFiles == {"example_key", "example_svg", "example_png"}
ExampleCalls == {ExampleCall("svg"), ExampleCall("png")}
C24_BakesOnlyWithAllThree ==
    /\ ~Bakes
         => /\ rpc \in {"start", "run_examples", "done"}
            /\ SeqToSet(opened) \cap GivenFiles = {}
            /\ SeqToSet(invoked) \subseteq ExampleCalls
            /\ rpc = "done" => /\ rresult.from \in {"run_examples", "run"}
                               /\ "example_key" \in SeqToSet(opened)
    /\ Bakes
         => /\ rpc # "run_examples"
            /\ SeqToSet(opened) \cap ExampleFiles = {}
            /\ SeqToSet(invoked) \cap ExampleCalls = {}

\* C24, its case: without baked location the examples are run.
C24_Witness ==
    /\ settings.assertion_loc /\ settings.source_image_loc.some /\ ~settings.baked_loc.some
    /\ rpc = "done" /\ rresult = RunOk
    /\ opened = <<"example_key", "example_svg", "example_png">>
    /\ invoked = <<ExampleCall("svg"), ExampleCall("png")>>

(***************************************************************************)
(* C25  PNG strict mode with several markers: with fail_if_verify_present  *)
(* = true a rewrite in which no step fails returns VerifyAlreadySet if and *)
(* only if the source holds an "openbadges" iTXt chunk whose text differs  *)
(* from verify, wherever the chunk stands and also when another marker     *)
(* chunk equals verify; present is the text of the first such chunk in     *)
(* source order.                                                           *)
(***************************************************************************)
Differing(chunks) == SelectSeq(chunks, Conflicting)
C25_StrictMode ==
    (patcher = "png" /\ call = 1 /\ fail_if_verify_present /\ Done /\ ~faulted)
        => /\ result.tag = "VerifyAlreadySet" <=> Differing(FileChunks(input_file)) # <<>>
           /\ result.tag = "VerifyAlreadySet"
                => result.present = Differing(FileChunks(input_file))[1].text

(***************************************************************************)
(* C26  SVG marker not in first position: an openbadges:assertion element  *)
(* that is not the first event after the root start element is never       *)
(* examined: for such a source a rewrite in which no step fails returns Ok *)
(* for every verify and both values of fail_if_verify_present, also with a *)
(* differing payload; it inserts a new assertion element as first child    *)
(* and forwards the existing ones unchanged.                               *)
(***************************************************************************)
MarkerNotFirst ==
    /\ AfterSvgRoot
    /\ ~IsAssertionStart(AfterRoot)
    /\ AssertionStarts(SourceEvents) # <<>>
BareOf(events) == [i \in 1..Len(events) |-> Bare(events[i])]
\* The assertion start elements written that come from the source.
Forwarded ==
    SelectSeq(AssertionStarts(output_file.data), LAMBDA evt : evt.name.namespace # NONE)
C26_LaterMarkerIgnored ==
    (MarkerNotFirst /\ Done /\ ~faulted)
        => /\ result = Ok
           /\ IsNewAssertion(output_file.data[3], verify)
           /\ BareOf(Forwarded) = BareOf(AssertionStarts(SourceEvents))

(***************************************************************************)
(* C27  SVG root recognition: rewrite treats as root every start element   *)
(* whose local name is "svg" in any letter case and whose namespace is     *)
(* absent or "http://www.w3.org/2000/svg": it is written with the          *)
(* openbadges mapping and the event behind it is the one decided on.  All  *)
(* events before the first such element are forwarded unchanged.  When the *)
(* document holds no such element, a rewrite in which no step fails        *)
(* returns Ok and the output holds the source's events unchanged: no       *)
(* assertion element is added and no namespace injected.                   *)
(***************************************************************************)
RootLike(evt) ==
    /\ evt.type = "StartElement"
    /\ evt.name.local_name \in {"svg", "SVG", "Svg"}
    /\ evt.name.namespace \in {NONE, SVG_NS}
Roots == {i \in 1..Len(SourceEvents) : RootLike(SourceEvents[i])}
BeforeFirstRoot(i) == \A k \in Roots : i < k
\* Every element of that kind is taken as root, and nothing else.
RootsRecognised ==
    /\ (pc = "events" /\ idx > 1) => (passed_init_elem <=> RootLike(SourceEvents[idx - 1]))
    /\ \A i \in 1..Len(output_file.data) :
        RootLike(output_file.data[i]) => Contains(output_file.data[i].namespace, "openbadges")
ForwardedBeforeRoot ==
    \A i \in 1..Len(output_file.data) :
        BeforeFirstRoot(i) => output_file.data[i] = AsWriterEvent(SourceEvents[i])
C27_RootRecognition ==
    (patcher = "svg" /\ call = 1)
        => /\ RootsRecognised
           /\ ForwardedBeforeRoot
           /\ (Roots = {} /\ Done /\ ~faulted)
                => /\ result = Ok
                   /\ Len(output_file.data) = Len(SourceEvents) - 1

\* C27, its case: a document without svg element came through unchanged.
C27_Witness ==
    /\ patcher = "svg" /\ call = 1
    /\ Roots = {} /\ Done /\ ~faulted
    /\ AssertionStarts(SourceEvents) # <<>>
    /\ Len(output_file.data) = Len(SourceEvents) - 1

\* C27 as stated: without such an element the output holds no assertion
\* element at all.
C27_AsStated ==
    (patcher = "svg" /\ call = 1)
        => /\ RootsRecognised
           /\ ForwardedBeforeRoot
           /\ (Roots = {} /\ Done /\ ~faulted)
                => /\ result = Ok
                   /\ AssertionStarts(output_file.data) = <<>>
                   /\ \A i \in 1..Len(output_file.data) :
                        output_file.data[i].type = "StartElement"
                            => output_file.data[i].namespace = SourceEvents[i].namespace

(***************************************************************************)
(* C28  process::run always calls the patcher with fail_if_verify_present  *)
(* = true: through run an existing marker with a different payload is      *)
(* never overwritten; a run whose steps do not fail ends with              *)
(* VerifyAlreadySet instead.                                               *)
(***************************************************************************)
\* The source image holds a marker whose payload differs from verify.
HasDifferingMarker ==
    IF patcher = "png"
    THEN Differing(FileChunks(input_file)) # <<>>
    ELSE \E i \in 1..Len(AssertionStarts(SourceEvents)) :
            VerifyAttrVal(AssertionStarts(SourceEvents)[i]) \notin {NONE, verify}
C28_StrictThroughRun ==
    Bakes =>
        /\ \A i \in 1..Len(invoked) : invoked[i].fail_if_verify_present
        /\ rpc = "rewriting" => fail_if_verify_present
        /\ (rpc = "done" /\ ReachedMatch /\ ~faulted /\ HasDifferingMarker)
             => rresult = RunErr("VerifyAlreadySet", "rewrite")

(***************************************************************************)
(* C29  Input open failure leaves the destination untouched: both patchers *)
(* open the input before they create the destination; when opening the     *)
(* input fails rewrite returns Error::IO and the destination is neither    *)
(* created nor truncated; the destination is created or truncated only     *)
(* after the input was opened.  (File::create creates or truncates;        *)
(* output_file.created says that it did.)                                  *)
(***************************************************************************)
InputOpened == "source_image" \in SeqToSet(opened)
C29_InputBeforeDestination ==
    (rpc = "idle" /\ call = 1 /\ pc # "idle")
        => /\ opened \in {<<>>, <<"source_image">>, <<"source_image", "baked">>}
           /\ output_file.created => InputOpened
           /\ "baked" \in SeqToSet(opened) <=> output_file.created
           /\ (Done /\ ~InputOpened) => (result = ErrIO /\ output_file = NoOutput)

\* C29, its case: the input could not be opened.
C29_Witness ==
    /\ rpc = "idle" /\ call = 1
    /\ patcher = "png"
    /\ Done /\ ~InputOpened
    /\ result = ErrIO /\ output_file = NoOutput

(***************************************************************************)
(* C30  Within process::run create_baking_content never returns            *)
(* Error::Impossible: read_assertion rejects every assertion whose         *)
(* verification type is VerificationObject with Error::InvalidSettings     *)
(* before create_baking_content is reached.                                *)
(***************************************************************************)
\* run has left read_assertion behind without an error.
AssertionRead ==
    \/ rpc \in {"read_priv_key_opt", "read_cert_chain_opt", "parse_image_types",
                "create_baking_content", "rewrite", "rewriting"}
    \/ rpc = "done" /\ rresult.from # "read_assertion"
C30_NeverImpossible ==
    /\ rresult.tag # "Impossible"
    /\ (Bakes /\ settings.assertion_file = "VerificationObject")
         => /\ ~AssertionRead
            /\ rpc = "done" => rresult = RunErr("InvalidSettings", "read_assertion")

\* C30, its case: a VerificationObject assertion was read and rejected.
C30_Witness ==
    /\ Bakes /\ settings.assertion_file = "VerificationObject"
    /\ rpc = "done"
    /\ opened = <<"assertion">>
    /\ rresult = RunErr("InvalidSettings", "read_assertion")

====
